---- MODULE Spec2Model ----
(***************************************************************************)
(* A model of the shared-video playback service: the session record of     *)
(* app/services/sync.py, the upload route of app/api/routes.py with its    *)
(* play counter (app/db/database.py), and the viewer registry of           *)
(* app/utils/viewer_count.py.                                              *)
(*                                                                         *)
(* Two specifications are given.  Spec runs the handlers one request at a  *)
(* time, each handler as one action.  ConcSpec runs the same code at the   *)
(* grain of its accesses to the shared session record: upload coroutines   *)
(* on the event loop (async def, one yield at `await file.read()`) next    *)
(* to the worker threads that run the plain `def` routes.                  *)
(***************************************************************************)
EXTENDS Integers, Sequences, FiniteSets, TLC

VARIABLES
    _video_state,   \* sync.py:23   the session record
    storage,        \* the set of file names present under shared_video/
    played,         \* database.py: stats.videos_played
    _viewers,       \* viewer_count.py:3   viewer id -> last-seen time
    now,            \* the wall clock, time.time()
    resp,           \* the response of the request completed by the last step
    call,           \* observation: the request completed by the last step
    started,        \* observation: number of sessions started so far
    touched,        \* observation: viewer id -> time of its latest viewer_ping
    proc            \* ConcSpec: the requests in flight, their position and locals

vars == <<_video_state, storage, played, _viewers, now, resp, call, started, touched,
          proc>>

-----------------------------------------------------------------------------
\* Bounds of the model.

\* The clock runs over 1..MaxTime.
MaxTime == 3
\* Probed durations are 1..MaxDur seconds.
MaxDur == 2
\* Upload requests are accepted while the play counter is below MaxPlayed.
MaxPlayed == 2

-----------------------------------------------------------------------------
\* Python values.

\* None is the empty tuple; a value v that is present is <<v>>.
None == <<>>
Some(v) == <<v>>
Val(o) == o[1]

\* Truthiness of an optional string (None and "" are falsy).
TruthyStr(o) == o # None /\ Val(o) # <<>>
\* Truthiness of an optional number (None and 0 are falsy).
TruthyNum(o) == o # None /\ Val(o) # 0

\* A string is a tuple of one-character strings.
Lower(c) ==
    CASE c = "A" -> "a" [] c = "B" -> "b" [] c = "C" -> "c" [] c = "I" -> "i"
      [] c = "K" -> "k" [] c = "M" -> "m" [] c = "O" -> "o" [] c = "P" -> "p"
      [] c = "T" -> "t" [] c = "V" -> "v" [] c = "W" -> "w" [] c = "X" -> "x"
      [] OTHER -> c
LowerStr(s) == [i \in 1..Len(s) |-> Lower(s[i])]

\* dict merge {**a, **b}: the keys of b override those of a.
Merge(a, b) == [k \in DOMAIN a \cup DOMAIN b |-> IF k \in DOMAIN b THEN b[k] ELSE a[k]]

-----------------------------------------------------------------------------
\* Upload validation (sync.py:13-100).

ALLOWED_EXTENSIONS ==
    { <<".", "m", "p", "4">>, <<".", "m", "o", "v">>, <<".", "a", "v", "i">>,
      <<".", "m", "k", "v">>, <<".", "w", "e", "b", "m">> }

ALLOWED_CONTENT_TYPES(ext) ==
    CASE ext = <<".", "m", "p", "4">> -> Some("video/mp4")
      [] ext = <<".", "m", "o", "v">> -> Some("video/quicktime")
      [] ext = <<".", "a", "v", "i">> -> Some("video/x-msvideo")
      [] ext = <<".", "m", "k", "v">> -> Some("video/x-matroska")
      [] ext = <<".", "w", "e", "b", "m">> -> Some("video/webm")
      [] OTHER -> None

\* Largest index of character c in s, 0 when absent (str.rfind + 1).
RFind(s, c) ==
    LET hits == {i \in 1..Len(s) : s[i] = c}
    IN  IF hits = {} THEN 0 ELSE CHOOSE i \in hits : \A j \in hits : j <= i

\* os.path.splitext(p)[1]: the suffix from the last dot of the last path
\* component, provided a character other than a dot precedes it there.
SplitExt(p) ==
    LET sep == RFind(p, "/")
        dot == RFind(p, ".")
    IN  IF dot > sep /\ \E i \in (sep + 1)..(dot - 1) : p[i] # "."
        THEN SubSeq(p, dot, Len(p))
        ELSE <<>>

\* Mutant of _get_extension: the extension is not lowercased.
_get_extension_as_typed(filename) == SplitExt(filename)

_get_extension(filename) == LowerStr(SplitExt(filename))

\* Each validator gives the detail of the HTTPException it raises, or None.
_validate_extension(filename) ==
    IF _get_extension(filename) \notin ALLOWED_EXTENSIONS
    THEN Some("Invalid extension")
    ELSE None

_validate_content_type(content_type, filename) ==
    LET expected == ALLOWED_CONTENT_TYPES(_get_extension(filename))
    IN  IF ~ (content_type # None /\ Val(content_type) # "") THEN None
        ELSE IF expected # None /\ Val(content_type) # Val(expected)
        THEN Some("Invalid content type")
        ELSE None

\* The try block of upload_video, sync.py:162-166.
Validate(filename, content_type) ==
    IF _validate_extension(filename) # None
    THEN _validate_extension(filename)
    ELSE _validate_content_type(content_type, filename)

-----------------------------------------------------------------------------
\* Probing (sync.py:121-135).  A media file is what the two probing tools
\* make of it: how the ffmpeg decode scan ends, and the duration in
\* milliseconds of its first video track (0: no video track with a duration).

\* _check_video_corruption: the detail of the failure, or None.
_check_video_corruption(file) ==
    CASE file.ffmpeg = "missing" -> Some("'ffmpeg' not found")
      [] file.ffmpeg = "corrupt" -> Some("Video corruption detected")
      [] OTHER -> None

\* _get_video_duration: milliseconds to seconds, or the failure.
_get_video_duration(file) ==
    IF file.mediainfo = "error" THEN [ok |-> FALSE, error |-> "exception"]
    ELSE IF file.duration_ms # 0
    THEN [ok |-> TRUE, duration |-> file.duration_ms \div 1000]
    ELSE [ok |-> FALSE, error |-> "No video track found in file."]

\* The second try block of upload_video, sync.py:171-179.
Probe(file) ==
    IF _check_video_corruption(file) # None
    THEN [ok |-> FALSE, error |-> Val(_check_video_corruption(file))]
    ELSE _get_video_duration(file)

-----------------------------------------------------------------------------
\* The session record (sync.py:23-27, 144-154, 221-229).

Idle == [filename |-> None, start_time |-> None, expected_end_time |-> None]

\* Mutant of end_video: the superseded definition of sync.py:207-210, which
\* clears a "duration" key and leaves expected_end_time set.
end_video_duration_key(s) ==
    [s EXCEPT !.filename = None, !.start_time = None]

\* The last definition of end_video in the module is the one every caller
\* resolves at call time.
end_video(s) ==
    [s EXCEPT !.filename = None, !.start_time = None, !.expected_end_time = None]

\* Mutant of ExpiryDue: `>` for `>=`.
ExpiryDue_strict(s, t) ==
    TruthyNum(s.expected_end_time) /\ t > Val(s.expected_end_time)

\* The condition of check_and_expire_video at time t.
ExpiryDue(s, t) ==
    TruthyNum(s.expected_end_time) /\ t >= Val(s.expected_end_time)

\* Mutant of check_and_expire_video: the expiry is never applied.
check_and_expire_video_never(s, t) == s

check_and_expire_video(s, t) == IF ExpiryDue(s, t) THEN end_video(s) ELSE s

\* Mutant of _set_video_state: the end time is the duration, not now + it.
_set_video_state_no_now(s, filename, duration, t) ==
    [s EXCEPT !.filename = Some(filename),
              !.start_time = Some(t),
              !.expected_end_time = Some(duration)]

_set_video_state(s, filename, duration, t) ==
    [s EXCEPT !.filename = Some(filename),
              !.start_time = Some(t),
              !.expected_end_time = Some(t + duration)]

\* Mutant of IsPlaying: the test reads the "duration" key of the superseded
\* end_video, which the record never holds.
IsPlaying_never(s) == TruthyNum(None)

\* The test `if _video_state["filename"]` of sync.py:159, 193 and 215.
IsPlaying(s) == TruthyStr(s.filename)

\* Mutant of _cleanup_file: the file is left where it is.
_cleanup_file_noop(st, filename) == st

_cleanup_file(st, filename) == st \ {filename}

_save_file(st, filename) == st \cup {filename}

-----------------------------------------------------------------------------
\* The viewer registry (viewer_count.py).

\* The staleness window of viewer_count.py:12, in seconds.
StaleAfter == 15

\* Mutant of viewer_ping: the ping also drops the entries that are stale.
viewer_ping_sweeping(v, viewer_id, t) ==
    [k \in {i \in DOMAIN v \cup {viewer_id} :
              i = viewer_id \/ ~ (t - v[i] > StaleAfter)} |->
        IF k = viewer_id THEN t ELSE v[k]]

\* viewer_ping: the entry of viewer_id becomes t, every other entry stays.  The
\* only caller, the ping route, passes the client host, a non-empty string, so
\* `viewer_id or str(now)` is viewer_id.
viewer_ping(v, viewer_id, t) ==
    [k \in DOMAIN v \cup {viewer_id} |-> IF k = viewer_id THEN t ELSE v[k]]

\* Mutant of Prune: `>=` for `>`.
Prune_inclusive(v, t) ==
    [k \in {i \in DOMAIN v : ~ (t - v[i] >= StaleAfter)} |-> v[k]]

\* get_viewer_count: the registry without its stale entries.
Prune(v, t) == [k \in {i \in DOMAIN v : ~ (t - v[i] > StaleAfter)} |-> v[k]]
get_viewer_count(v, t) == Cardinality(DOMAIN Prune(v, t))

-----------------------------------------------------------------------------
\* Request inputs.

NameA == <<"a", ".", "m", "p", "4">>
NameB == <<"B", ".", "M", "K", "V">>
NameBad == <<"c", ".", "t", "x", "t">>
UploadNames == {NameA, NameB, NameBad}

ContentTypes == {None, Some("video/mp4"), Some("video/x-matroska")}

Video(d) == [ffmpeg |-> "ok", mediainfo |-> "ok", duration_ms |-> 1000 * d]
MediaFiles ==
    {Video(d) : d \in 1..MaxDur} \cup
    { [ffmpeg |-> "corrupt", mediainfo |-> "ok", duration_ms |-> 1000],
      [ffmpeg |-> "missing", mediainfo |-> "ok", duration_ms |-> 1000],
      [ffmpeg |-> "ok", mediainfo |-> "ok", duration_ms |-> 0],
      [ffmpeg |-> "ok", mediainfo |-> "error", duration_ms |-> 1000] }

-----------------------------------------------------------------------------
\* The handlers as functions of the state they find.  t1 is the clock at the
\* handler's first reading (the expiry check), t2 the clock at its later ones.

\* Mutant of upload_video: the session is tested as found, without the expiry
\* check that opens the function.
upload_video_unexpired(s, st, filename, content_type, file, t1, t2) ==
    LET pr == Probe(file)
    IN  IF IsPlaying(s)
        THEN [state |-> s, storage |-> st, raised |-> 409,
              value |-> [detail |-> "Video already playing"]]
        ELSE IF Validate(filename, content_type) # None
        THEN [state |-> s, storage |-> st, raised |-> 0,
              value |-> [success |-> FALSE,
                         error |-> Val(Validate(filename, content_type))]]
        ELSE IF ~ pr.ok
        THEN [state |-> s, storage |-> _cleanup_file(_save_file(st, filename), filename),
              raised |-> 0,
              value |-> [success |-> FALSE, error |-> pr.error]]
        ELSE [state |-> _set_video_state(s, filename, pr.duration, t2),
              storage |-> _save_file(st, filename), raised |-> 0,
              value |-> [success |-> TRUE, message |-> "Video uploaded",
                         filename |-> filename, duration |-> pr.duration]]

\* upload_video, sync.py:157-187.  raised is the status code of the
\* HTTPException that leaves the function (0: it returned value).
upload_video(s, st, filename, content_type, file, t1, t2) ==
    LET s1 == check_and_expire_video(s, t1)
        pr == Probe(file)
    IN  IF IsPlaying(s1)
        THEN [state |-> s1, storage |-> st, raised |-> 409,
              value |-> [detail |-> "Video already playing"]]
        ELSE IF Validate(filename, content_type) # None
        THEN [state |-> s1, storage |-> st, raised |-> 0,
              value |-> [success |-> FALSE,
                         error |-> Val(Validate(filename, content_type))]]
        ELSE IF ~ pr.ok
        THEN [state |-> s1, storage |-> _cleanup_file(_save_file(st, filename), filename),
              raised |-> 0,
              value |-> [success |-> FALSE, error |-> pr.error]]
        ELSE [state |-> _set_video_state(s1, filename, pr.duration, t2),
              storage |-> _save_file(st, filename), raised |-> 0,
              value |-> [success |-> TRUE, message |-> "Video uploaded",
                         filename |-> filename, duration |-> pr.duration]]

\* The route POST /upload, routes.py:10-23, applied to what upload_video did:
\* the response, and whether increment_video_stat() ran.
upload(r) ==
    IF r.raised = 400
    THEN [code |-> 400, body |-> [success |-> FALSE, error |-> r.value.detail],
          counted |-> FALSE]
    ELSE IF r.raised # 0
    THEN [code |-> r.raised, body |-> r.value, counted |-> FALSE]
    ELSE [code |-> 200, body |-> Merge([success |-> TRUE], r.value),
          counted |-> TRUE]

\* Mutant of get_video_status: the operands of elapsed are swapped.
get_video_status_swapped(s, v, t1, t2) ==
    LET s1 == check_and_expire_video(s, t1)
    IN  IF ~ IsPlaying(s1)
        THEN [state |-> s1, viewers |-> v, code |-> 200,
              body |-> [status |-> "no_video"]]
        ELSE IF s1.start_time = None
        THEN [state |-> s1, viewers |-> v, code |-> 500,
              body |-> [detail |-> "Internal Server Error"]]
        ELSE [state |-> s1, viewers |-> Prune(v, t2), code |-> 200,
              body |-> [filename |-> s1.filename,
                        elapsed |-> Val(s1.start_time) - t2,
                        status |-> "playing",
                        viewers |-> get_viewer_count(v, t2)]]

\* get_video_status, sync.py:190-202 (route GET /status).
get_video_status(s, v, t1, t2) ==
    LET s1 == check_and_expire_video(s, t1)
    IN  IF ~ IsPlaying(s1)
        THEN [state |-> s1, viewers |-> v, code |-> 200,
              body |-> [status |-> "no_video"]]
        ELSE IF s1.start_time = None
        THEN [state |-> s1, viewers |-> v, code |-> 500,
              body |-> [detail |-> "Internal Server Error"]]
        ELSE [state |-> s1, viewers |-> Prune(v, t2), code |-> 200,
              body |-> [filename |-> s1.filename,
                        elapsed |-> t2 - Val(s1.start_time),
                        status |-> "playing",
                        viewers |-> get_viewer_count(v, t2)]]

\* Mutant of get_video_filename_path: no expiry check comes first.
get_video_filename_path_unexpired(s, t1) ==
    IF ~ IsPlaying(s)
    THEN [state |-> s, code |-> 404, body |-> [detail |-> "No video playing"]]
    ELSE [state |-> s, code |-> 200,
          body |-> [path |-> <<"shared_video", Val(s.filename)>>,
                    filename |-> s.filename]]

\* get_video_filename_path, sync.py:213-218 (route GET /video).
get_video_filename_path(s, t1) ==
    LET s1 == check_and_expire_video(s, t1)
    IN  IF ~ IsPlaying(s1)
        THEN [state |-> s1, code |-> 404, body |-> [detail |-> "No video playing"]]
        ELSE [state |-> s1, code |-> 200,
              body |-> [path |-> <<"shared_video", Val(s1.filename)>>,
                        filename |-> s1.filename]]

-----------------------------------------------------------------------------
\* Observations of the last step.

NoResp == [op |-> "none", code |-> 0, body |-> [detail |-> "none"]]
NoFile == [ffmpeg |-> "none", mediainfo |-> "none", duration_ms |-> 0]
NoCall ==
    [op |-> "none", at |-> 0, before |-> Idle, stored |-> {},
     filename |-> <<>>, content_type |-> None, file |-> NoFile]
Called(op, at, before, stored) ==
    [op |-> op, at |-> at, before |-> before, stored |-> stored,
     filename |-> <<>>, content_type |-> None, file |-> NoFile]

NoProc == [x \in {} |-> 0]

-----------------------------------------------------------------------------
\* Spec: one request at a time.

Init ==
    /\ _video_state = Idle
    /\ storage = {}
    /\ played = 0
    /\ _viewers = [k \in {} |-> 0]
    /\ now = 1
    /\ resp = NoResp
    /\ call = NoCall
    /\ started = 0
    /\ touched = [k \in {} |-> 0]
    /\ proc = NoProc

\* Time passes between two requests.
Tick ==
    /\ now < MaxTime
    /\ now' = now + 1
    /\ resp' = NoResp
    /\ call' = NoCall
    /\ UNCHANGED <<_video_state, storage, played, _viewers, started, proc, touched>>

\* POST /upload.
Upload ==
    /\ played < MaxPlayed
    /\ \E filename \in UploadNames, content_type \in ContentTypes,
          file \in MediaFiles, t2 \in now..MaxTime :
         LET r == upload_video(_video_state, storage, filename, content_type,
                               file, now, t2)
             a == upload(r)
         IN  /\ _video_state' = r.state
             /\ storage' = r.storage
             /\ played' = IF a.counted THEN played + 1 ELSE played
             /\ started' = IF r.raised = 0 /\ r.value.success
                           THEN started + 1 ELSE started
             /\ now' = IF r.raised = 0 /\ r.value.success THEN t2 ELSE now
             /\ resp' = [op |-> "upload", code |-> a.code, body |-> a.body]
             /\ call' = [Called("upload", now, _video_state, storage) EXCEPT
                            !.filename = filename,
                            !.content_type = content_type,
                            !.file = file]
    /\ UNCHANGED <<_viewers, proc, touched>>

\* GET /status.
Status ==
    /\ \E t2 \in now..MaxTime :
         LET r == get_video_status(_video_state, _viewers, now, t2)
         IN  /\ _video_state' = r.state
             /\ _viewers' = r.viewers
             /\ now' = IF r.body = [status |-> "no_video"] THEN now ELSE t2
             /\ resp' = [op |-> "status", code |-> r.code, body |-> r.body]
             /\ call' = Called("status", now, _video_state, storage)
    /\ UNCHANGED <<storage, played, started, proc, touched>>

\* GET /video.
GetVideoFile ==
    /\ LET r == get_video_filename_path(_video_state, now)
       IN  /\ _video_state' = r.state
           /\ resp' = [op |-> "video", code |-> r.code, body |-> r.body]
           /\ call' = Called("video", now, _video_state, storage)
    /\ UNCHANGED <<storage, played, _viewers, now, started, proc, touched>>

\* Mutant of End: ending is refused when no video is playing.
End_only_playing ==
    /\ _video_state' = end_video(_video_state)
    /\ resp' = IF IsPlaying(_video_state)
               THEN [op |-> "end", code |-> 200, body |-> [message |-> "Video ended"]]
               ELSE [op |-> "end", code |-> 404, body |-> [detail |-> "No video playing"]]
    /\ call' = Called("end", now, _video_state, storage)
    /\ UNCHANGED <<storage, played, _viewers, now, started, proc, touched>>

\* POST /end.
End ==
    /\ _video_state' = end_video(_video_state)
    /\ resp' = [op |-> "end", code |-> 200, body |-> [message |-> "Video ended"]]
    /\ call' = Called("end", now, _video_state, storage)
    /\ UNCHANGED <<storage, played, _viewers, now, started, proc, touched>>

Next == Tick \/ Upload \/ Status \/ GetVideoFile \/ End

Spec == Init /\ [][Next]_vars

-----------------------------------------------------------------------------
\* ConcSpec: the same code at the grain of its accesses to _video_state.
\*
\* routes.py declares upload with `async def`: uploads run as coroutines on
\* the event loop, one at a time between yields, and upload_video yields
\* once, at `await file.read()` in _save_file.  The other routes are plain
\* `def`: each request runs on a worker thread, and may be preempted between
\* any two accesses to the shared record.

Coroutines == {"u1", "u2"}
Workers == {"w1", "w2"}
Procs == Coroutines \cup Workers

IdleProc ==
    [op |-> "none", pc |-> "idle", filename |-> <<>>, duration |-> 0,
     t |-> 0, elapsed |-> 0]

ConcInit ==
    /\ _video_state = Idle
    /\ storage = {}
    /\ played = 0
    /\ _viewers = [k \in {} |-> 0]
    /\ now = 1
    /\ resp = NoResp
    /\ call = NoCall
    /\ started = 0
    /\ touched = [k \in {} |-> 0]
    /\ proc = [p \in Procs |-> IdleProc]

\* A coroutine that holds the event loop: started and not suspended.
Running(u) == proc[u].pc \notin {"idle", "save"}
LoopFree(u) == \A v \in Coroutines \ {u} : ~ Running(v)

\* A step that completes no request leaves no response behind it.
Goto(p, pc) == proc' = [proc EXCEPT ![p].pc = pc] /\ resp' = NoResp

\* The request of p ends with this response.
Complete(p, code, body) ==
    /\ proc' = [proc EXCEPT ![p] = IdleProc]
    /\ resp' = [op |-> proc[p].op, code |-> code, body |-> body]

\* An uncaught TypeError: the framework answers 500.
Crash(p) == Complete(p, 500, [detail |-> "Internal Server Error"])

\* Where a handler goes on after check_and_expire_video.
AfterExpire(op) ==
    CASE op = "upload" -> "check"
      [] op = "status" -> "status1"
      [] OTHER -> "video1"

\* sync.py:222, left operand of `and`: the first read of expected_end_time
\* decides whether the right operand is evaluated.
Expire1(op) ==
    IF TruthyNum(_video_state.expected_end_time) THEN "expire2" ELSE AfterExpire(op)

\* A request arrives and runs up to its first access to the session record:
\* the first read of check_and_expire_video (upload, status, video), or the
\* first write of end_video (sync.py:227) for POST /end.
StartUpload(u) ==
    /\ u \in Coroutines
    /\ proc[u].pc = "idle"
    /\ LoopFree(u)
    /\ played + Cardinality({v \in Coroutines : proc[v].op = "upload"}) < MaxPlayed
    /\ proc' = [proc EXCEPT ![u].op = "upload", ![u].pc = Expire1("upload")]
    /\ resp' = NoResp
    /\ UNCHANGED <<_video_state, storage, played, _viewers, now, call, started, touched>>

StartStatus(w) ==
    /\ w \in Workers
    /\ proc[w].pc = "idle"
    /\ proc' = [proc EXCEPT ![w].op = "status", ![w].pc = Expire1("status")]
    /\ resp' = NoResp
    /\ UNCHANGED <<_video_state, storage, played, _viewers, now, call, started, touched>>

StartVideo(w) ==
    /\ w \in Workers
    /\ proc[w].pc = "idle"
    /\ proc' = [proc EXCEPT ![w].op = "video", ![w].pc = Expire1("video")]
    /\ resp' = NoResp
    /\ UNCHANGED <<_video_state, storage, played, _viewers, now, call, started, touched>>

StartEnd(w) ==
    /\ w \in Workers
    /\ proc[w].pc = "idle"
    /\ proc' = [proc EXCEPT ![w].op = "end", ![w].pc = "end2"]
    /\ resp' = NoResp
    /\ _video_state' = [_video_state EXCEPT !.filename = None]
    /\ UNCHANGED <<storage, played, _viewers, now, call, started, touched>>

\* A step of p is scheduled: a worker at any time, a coroutine when no other
\* coroutine holds the event loop.
Sched(p) == p \in Workers \/ LoopFree(p)

\* sync.py:222, right operand: time.time() >= the second read of the field.
\* Comparing a float with None raises TypeError.
Expire2(p) ==
    /\ proc[p].pc = "expire2"
    /\ Sched(p)
    /\ IF _video_state.expected_end_time = None
       THEN Crash(p)
       ELSE IF now >= Val(_video_state.expected_end_time)
            THEN Goto(p, "end1")
            ELSE Goto(p, AfterExpire(proc[p].op))
    /\ UNCHANGED <<_video_state, storage, played, _viewers, now, call, started, touched>>

\* end_video, sync.py:227, called by check_and_expire_video.
End1(p) ==
    /\ proc[p].pc = "end1"
    /\ Sched(p)
    /\ _video_state' = [_video_state EXCEPT !.filename = None]
    /\ Goto(p, "end2")
    /\ UNCHANGED <<storage, played, _viewers, now, call, started, touched>>

\* end_video, sync.py:228.
End2(p) ==
    /\ proc[p].pc = "end2"
    /\ Sched(p)
    /\ _video_state' = [_video_state EXCEPT !.start_time = None]
    /\ Goto(p, "end3")
    /\ UNCHANGED <<storage, played, _viewers, now, call, started, touched>>

\* end_video, sync.py:229; the route POST /end then answers.
End3(p) ==
    /\ proc[p].pc = "end3"
    /\ Sched(p)
    /\ _video_state' = [_video_state EXCEPT !.expected_end_time = None]
    /\ IF proc[p].op = "end"
       THEN Complete(p, 200, [message |-> "Video ended"])
       ELSE Goto(p, AfterExpire(proc[p].op))
    /\ UNCHANGED <<storage, played, _viewers, now, call, started, touched>>

\* upload_video, sync.py:159-169, up to the yield at `await file.read()`.
\* A validation failure returns a dict, so the route counts the upload.
UploadCheck(u) ==
    /\ proc[u].pc = "check"
    /\ Sched(u)
    /\ IF IsPlaying(_video_state)
       THEN /\ Complete(u, 409, [detail |-> "Video already playing"])
            /\ UNCHANGED played
       ELSE \E filename \in UploadNames, content_type \in ContentTypes :
              IF Validate(filename, content_type) # None
              THEN /\ Complete(u, 200,
                        [success |-> FALSE,
                         error |-> Val(Validate(filename, content_type))])
                   /\ played' = played + 1
              ELSE /\ proc' = [proc EXCEPT ![u].pc = "save", ![u].filename = filename]
                   /\ resp' = NoResp
                   /\ UNCHANGED played
    /\ UNCHANGED <<_video_state, storage, _viewers, now, call, started, touched>>

\* upload_video resumes: sync.py:110-111 writes the file, sync.py:171-179
\* probe it and remove it when the probe fails.
UploadSave(u) ==
    /\ proc[u].pc = "save"
    /\ Sched(u)
    /\ \E file \in MediaFiles :
         IF Probe(file).ok
         THEN /\ storage' = _save_file(storage, proc[u].filename)
              /\ proc' = [proc EXCEPT ![u].pc = "set1",
                                      ![u].duration = Probe(file).duration]
              /\ resp' = NoResp
              /\ UNCHANGED played
         ELSE /\ storage' = _cleanup_file(_save_file(storage, proc[u].filename),
                                          proc[u].filename)
              /\ Complete(u, 200, [success |-> FALSE, error |-> Probe(file).error])
              /\ played' = played + 1
    /\ UNCHANGED <<_video_state, _viewers, now, call, started, touched>>

\* _set_video_state, sync.py:145-146.
Set1(u) ==
    /\ proc[u].pc = "set1"
    /\ _video_state' = [_video_state EXCEPT !.filename = Some(proc[u].filename)]
    /\ proc' = [proc EXCEPT ![u].pc = "set2", ![u].t = now]
    /\ resp' = NoResp
    /\ UNCHANGED <<storage, played, _viewers, now, call, started, touched>>

\* _set_video_state, sync.py:147.
Set2(u) ==
    /\ proc[u].pc = "set2"
    /\ _video_state' = [_video_state EXCEPT !.start_time = Some(proc[u].t)]
    /\ Goto(u, "set3")
    /\ UNCHANGED <<storage, played, _viewers, now, call, started, touched>>

\* _set_video_state, sync.py:148; upload_video returns and the route counts
\* the upload and answers.
Set3(u) ==
    /\ proc[u].pc = "set3"
    /\ _video_state' =
          [_video_state EXCEPT !.expected_end_time = Some(proc[u].t + proc[u].duration)]
    /\ Complete(u, 200,
          [success |-> TRUE, message |-> "Video uploaded",
           filename |-> proc[u].filename, duration |-> proc[u].duration])
    /\ played' = played + 1
    /\ started' = started + 1
    /\ UNCHANGED <<storage, _viewers, now, call, touched>>

\* get_video_status, sync.py:193.
Status1(w) ==
    /\ proc[w].pc = "status1"
    /\ IF ~ IsPlaying(_video_state)
       THEN Complete(w, 200, [status |-> "no_video"])
       ELSE Goto(w, "status2")
    /\ UNCHANGED <<_video_state, storage, played, _viewers, now, call, started, touched>>

\* get_video_status, sync.py:196: time.time() - None raises TypeError.
Status2(w) ==
    /\ proc[w].pc = "status2"
    /\ IF _video_state.start_time = None
       THEN Crash(w)
       ELSE /\ proc' = [proc EXCEPT ![w].pc = "status3",
                                    ![w].elapsed = now - Val(_video_state.start_time)]
            /\ resp' = NoResp
    /\ UNCHANGED <<_video_state, storage, played, _viewers, now, call, started, touched>>

\* get_video_status, sync.py:197-202: the answer is built from a new read of
\* the filename and from get_viewer_count().
Status3(w) ==
    /\ proc[w].pc = "status3"
    /\ Complete(w, 200,
          [filename |-> _video_state.filename, elapsed |-> proc[w].elapsed,
           status |-> "playing", viewers |-> get_viewer_count(_viewers, now)])
    /\ _viewers' = Prune(_viewers, now)
    /\ UNCHANGED <<_video_state, storage, played, now, call, started, touched>>

\* get_video_filename_path, sync.py:215.
Video1(w) ==
    /\ proc[w].pc = "video1"
    /\ IF ~ IsPlaying(_video_state)
       THEN Complete(w, 404, [detail |-> "No video playing"])
       ELSE Goto(w, "video2")
    /\ UNCHANGED <<_video_state, storage, played, _viewers, now, call, started, touched>>

\* get_video_filename_path, sync.py:217: os.path.join(dir, None) raises
\* TypeError.
Video2(w) ==
    /\ proc[w].pc = "video2"
    /\ IF _video_state.filename = None
       THEN Crash(w)
       ELSE /\ proc' = [proc EXCEPT ![w].pc = "video3",
                                    ![w].filename = Val(_video_state.filename)]
            /\ resp' = NoResp
    /\ UNCHANGED <<_video_state, storage, played, _viewers, now, call, started, touched>>

\* get_video_filename_path, sync.py:218: the filename is read once more.
Video3(w) ==
    /\ proc[w].pc = "video3"
    /\ Complete(w, 200,
          [path |-> <<"shared_video", proc[w].filename>>,
           filename |-> _video_state.filename])
    /\ UNCHANGED <<_video_state, storage, played, _viewers, now, call, started, touched>>

\* The clock advances while requests are in flight.
ConcTick ==
    /\ now < MaxTime
    /\ now' = now + 1
    /\ resp' = NoResp
    /\ UNCHANGED <<_video_state, storage, played, _viewers, call, started, proc, touched>>

ConcNext ==
    \/ ConcTick
    \/ \E u \in Coroutines :
         StartUpload(u) \/ UploadCheck(u) \/ UploadSave(u) \/ Set1(u) \/ Set2(u) \/ Set3(u)
    \/ \E w \in Workers :
         \/ StartStatus(w) \/ StartVideo(w) \/ StartEnd(w)
         \/ Status1(w) \/ Status2(w) \/ Status3(w)
         \/ Video1(w) \/ Video2(w) \/ Video3(w)
    \/ \E p \in Procs : Expire2(p) \/ End1(p) \/ End2(p) \/ End3(p)

ConcSpec == ConcInit /\ [][ConcNext]_vars

-----------------------------------------------------------------------------
\* ViewerSpec: the operations of the viewer registry, one at a time, with a
\* clock that runs past the staleness window.  No video is uploaded here, so
\* the session stays idle.

ViewerMaxTime == 17
ViewerIds == {"v1", "v2"}

ViewerTick ==
    /\ now < ViewerMaxTime
    /\ now' = now + 1
    /\ resp' = NoResp
    /\ call' = NoCall
    /\ UNCHANGED <<_video_state, storage, played, _viewers, started, touched, proc>>

\* A call of viewer_ping.
ViewerPing ==
    /\ \E viewer_id \in ViewerIds :
         /\ _viewers' = viewer_ping(_viewers, viewer_id, now)
         /\ touched' = viewer_ping(touched, viewer_id, now)
         /\ resp' = [op |-> "viewer_ping", code |-> 0,
                     body |-> [viewer_id |-> viewer_id]]
    /\ call' = Called("viewer_ping", now, _video_state, storage)
    /\ UNCHANGED <<_video_state, storage, played, now, started, proc>>

\* A call of get_viewer_count.
GetViewerCount ==
    /\ _viewers' = Prune(_viewers, now)
    /\ resp' = [op |-> "get_viewer_count", code |-> 0,
                body |-> [viewers |-> get_viewer_count(_viewers, now)]]
    /\ call' = Called("get_viewer_count", now, _video_state, storage)
    /\ UNCHANGED <<_video_state, storage, played, now, started, touched, proc>>

\* POST /ping: viewer_ping for the client host, then get_viewer_count.
Ping ==
    /\ \E host \in ViewerIds :
         LET v1 == viewer_ping(_viewers, host, now)
         IN  /\ _viewers' = Prune(v1, now)
             /\ touched' = viewer_ping(touched, host, now)
             /\ resp' = [op |-> "ping", code |-> 200,
                         body |-> [viewers |-> get_viewer_count(v1, now)]]
    /\ call' = Called("ping", now, _video_state, storage)
    /\ UNCHANGED <<_video_state, storage, played, now, started, proc>>

\* GET /status under the clock of ViewerSpec.
ViewerStatus ==
    /\ \E t2 \in now..ViewerMaxTime :
         LET r == get_video_status(_video_state, _viewers, now, t2)
         IN  /\ _video_state' = r.state
             /\ _viewers' = r.viewers
             /\ now' = IF r.body = [status |-> "no_video"] THEN now ELSE t2
             /\ resp' = [op |-> "status", code |-> r.code, body |-> r.body]
             /\ call' = Called("status", now, _video_state, storage)
    /\ UNCHANGED <<storage, played, started, touched, proc>>

ViewerNext ==
    ViewerTick \/ ViewerPing \/ GetViewerCount \/ Ping \/ ViewerStatus \/ End

ViewerSpec == Init /\ [][ViewerNext]_vars

-----------------------------------------------------------------------------
\* ValidatorSpec: the validation of upload_video (sync.py:162-166) applied to
\* one (filename, content type) pair drawn from bounded sets.

\* What precedes the last dot: a plain name, nothing (a name that is only a
\* dot and letters), a name with a dot of its own, a directory.
ValidatorStems == { <<"a">>, <<>>, <<"a", ".", "t">>, <<"a", ".", "b", "/">> }
ValidatorSuffixes ==
    ALLOWED_EXTENSIONS \cup
    { <<".", "M", "P", "4">>, <<".", "M", "o", "v">>, <<".", "A", "V", "I">>,
      <<".", "M", "K", "V">>, <<".", "W", "e", "B", "M">>,
      <<".", "t", "x", "t">>, <<".", "m", "p">>, <<"m", "p", "4">>, <<".">>, <<>> }
ValidatorNames == {stem \o suffix : stem \in ValidatorStems, suffix \in ValidatorSuffixes}
ValidatorContentTypes ==
    { None, Some(""), Some("video/mp4"), Some("video/quicktime"),
      Some("video/x-msvideo"), Some("video/x-matroska"), Some("video/webm"),
      Some("VIDEO/MP4"), Some("text/plain") }

ValidatorInit ==
    /\ _video_state = Idle
    /\ storage = {}
    /\ played = 0
    /\ _viewers = [k \in {} |-> 0]
    /\ now = 1
    /\ resp = NoResp
    /\ call \in { [Called("validate", 1, Idle, {}) EXCEPT
                      !.filename = filename, !.content_type = content_type] :
                  filename \in ValidatorNames, content_type \in ValidatorContentTypes }
    /\ started = 0
    /\ touched = [k \in {} |-> 0]
    /\ proc = NoProc

\* _validate_extension, then _validate_content_type; an HTTPException of
\* either is the rejection.
ValidateUpload ==
    /\ resp = NoResp
    /\ LET e == Validate(call.filename, call.content_type)
       IN  resp' = [op |-> "validate", code |-> IF e = None THEN 200 ELSE 400,
                    body |-> [error |-> e]]
    /\ UNCHANGED <<_video_state, storage, played, _viewers, now, call, started,
                   touched, proc>>

ValidatorNext == ValidateUpload

ValidatorSpec == ValidatorInit /\ [][ValidatorNext]_vars

-----------------------------------------------------------------------------
\* ViewerConcSpec: POST /ping handlers in two worker threads, one step per
\* access to the registry.  get_viewer_count is an iteration over the dict
\* (viewer_count.py:12), one `del` per stale key (14) and `len` (15); the
\* clock advances between requests.

ViewerThreads == {"t1", "t2"}
IdleThread ==
    [pc |-> "idle", viewer_id |-> "", t |-> 0, used |-> 0, seen |-> {}, stale |-> {}]

ViewerConcInit ==
    /\ _video_state = Idle
    /\ storage = {}
    /\ played = 0
    /\ _viewers = [k \in {} |-> 0]
    /\ now = 1
    /\ resp = NoResp
    /\ call = NoCall
    /\ started = 0
    /\ touched = [k \in {} |-> 0]
    /\ proc = [p \in ViewerThreads |-> IdleThread]

ViewerConcTick ==
    /\ \A p \in ViewerThreads : proc[p].pc = "idle"
    /\ now < ViewerMaxTime
    /\ now' = now + 1
    /\ resp' = NoResp
    /\ UNCHANGED <<_video_state, storage, played, _viewers, call, started, touched, proc>>

\* The request arrives and viewer_ping stores the entry of the client host.
PingTouch(p) ==
    /\ proc[p].pc = "idle"
    /\ \E host \in ViewerIds :
         /\ _viewers' = viewer_ping(_viewers, host, now)
         /\ touched' = viewer_ping(touched, host, now)
         /\ proc' = [proc EXCEPT ![p] = [IdleThread EXCEPT !.pc = "count",
                                                         !.viewer_id = host]]
    /\ resp' = NoResp
    /\ UNCHANGED <<_video_state, storage, played, now, call, started>>

\* get_viewer_count reads the clock and opens the iteration of
\* _viewers.items(): the iterator keeps the size the dict has now.
CountIter(p) ==
    /\ proc[p].pc = "count"
    /\ proc' = [proc EXCEPT ![p].pc = "scan", ![p].t = now,
                            ![p].used = Cardinality(DOMAIN _viewers)]
    /\ resp' = NoResp
    /\ UNCHANGED <<_video_state, storage, played, _viewers, now, call, started, touched>>

\* The ping request of thread p ends with an unhandled exception.
ViewerCrash(p, exception) ==
    /\ proc' = [proc EXCEPT ![p] = IdleThread]
    /\ resp' = [op |-> "ping", code |-> 500, body |-> [detail |-> exception]]

\* One step of the iteration: RuntimeError when the dict has changed size
\* since the iteration began, else the next entry, kept when it is stale, or
\* the end of the comprehension.
CountScan(p) ==
    /\ proc[p].pc = "scan"
    /\ IF Cardinality(DOMAIN _viewers) # proc[p].used
       THEN ViewerCrash(p, "RuntimeError")
       ELSE /\ resp' = NoResp
            /\ IF DOMAIN _viewers \ proc[p].seen = {}
               THEN proc' = [proc EXCEPT ![p].pc = "del"]
               ELSE \E k \in DOMAIN _viewers \ proc[p].seen :
                      proc' = [proc EXCEPT
                                  ![p].seen = @ \cup {k},
                                  ![p].stale = IF proc[p].t - _viewers[k] > StaleAfter
                                               THEN @ \cup {k} ELSE @]
    /\ UNCHANGED <<_video_state, storage, played, _viewers, now, call, started, touched>>

\* One `del _viewers[k]` of the loop over stale: KeyError when the key is no
\* longer there.
CountDel(p) ==
    /\ proc[p].pc = "del"
    /\ proc[p].stale # {}
    /\ \E k \in proc[p].stale :
         IF k \notin DOMAIN _viewers
         THEN ViewerCrash(p, "KeyError") /\ UNCHANGED _viewers
         ELSE /\ _viewers' = [i \in DOMAIN _viewers \ {k} |-> _viewers[i]]
              /\ proc' = [proc EXCEPT ![p].stale = @ \ {k}]
              /\ resp' = NoResp
    /\ UNCHANGED <<_video_state, storage, played, now, call, started, touched>>

\* len(_viewers), and the answer of the route.
CountLen(p) ==
    /\ proc[p].pc = "del"
    /\ proc[p].stale = {}
    /\ proc' = [proc EXCEPT ![p] = IdleThread]
    /\ resp' = [op |-> "ping", code |-> 200,
                body |-> [viewers |-> Cardinality(DOMAIN _viewers)]]
    /\ UNCHANGED <<_video_state, storage, played, _viewers, now, call, started, touched>>

ViewerConcNext ==
    \/ ViewerConcTick
    \/ \E p \in ViewerThreads :
         PingTouch(p) \/ CountIter(p) \/ CountScan(p) \/ CountDel(p) \/ CountLen(p)

ViewerConcSpec == ViewerConcInit /\ [][ViewerConcNext]_vars

-----------------------------------------------------------------------------
\* Vocabulary of the claims.

\* The record is fully populated, or fully cleared.
FullyPopulated(s) ==
    s.filename # None /\ s.start_time # None /\ s.expected_end_time # None
FullyCleared(s) ==
    s.filename = None /\ s.start_time = None /\ s.expected_end_time = None

\* At time t the session s is at or past its expected end time.
PastEnd(s, t) == s.expected_end_time # None /\ t >= Val(s.expected_end_time)
\* At time t a session is active: populated and not yet at its end time.
ActiveAt(s, t) == s.filename # None /\ ~ PastEnd(s, t)

\* The last step completed an upload request, found as the call records it.
UploadDone == call.op = "upload" /\ resp.op = "upload"
UploadSucceeded ==
    UploadDone /\ "success" \in DOMAIN resp.body /\ resp.body.success = TRUE
UploadFailed == UploadDone /\ ~ UploadSucceeded
\* The upload was turned away by the validator (no conflict came first).
UploadInvalid ==
    /\ UploadDone
    /\ ~ ActiveAt(call.before, call.at)
    /\ Validate(call.filename, call.content_type) # None
\* The upload reached the probe step, and the probe failed.
UploadProbeFailed ==
    /\ UploadDone
    /\ ~ ActiveAt(call.before, call.at)
    /\ Validate(call.filename, call.content_type) = None
    /\ ~ Probe(call.file).ok
\* The upload met an active session.
UploadConflict == UploadDone /\ ActiveAt(call.before, call.at)

\* A status response that reports no session: the status field alone, and
\* not "playing".
IdleReport(b) == DOMAIN b = {"status"} /\ b.status # "playing"
PlayingReport(b) == "status" \in DOMAIN b /\ b.status = "playing"

-----------------------------------------------------------------------------
\* C1: of two uploads in flight together, each having found the session
\* idle before the other populated it, at most one starts a session (the
\* other being answered 409): no upload comes to populate a session record
\* that another upload has populated since it checked for an active session.
C1_OneOfTwoStarts ==
    \A u \in Coroutines :
        proc[u].pc = "set1" => _video_state.filename = None

\* C3: a status or resolve-path request that runs next to an upload or an end
\* request completes with a normal outcome built from one consistent view of
\* the record: idle, or playing with the filename of the session, or not
\* found, or the path and filename of one and the same asset; never an
\* internal error.
C3_ReadersSeeWholeRecord ==
    /\ resp.op = "status" =>
          /\ resp.code = 200
          /\ IdleReport(resp.body) \/
                (PlayingReport(resp.body) /\ resp.body.filename # None)
    /\ resp.op = "video" =>
          \/ resp.code = 404
          \/ /\ resp.code = 200
             /\ resp.body.filename # None
             /\ resp.body.path = <<"shared_video", Val(resp.body.filename)>>

\* C2: after every completed request of a run in which requests are served
\* one after the other (upload, status, resolve-path, end, each with its
\* lazy expiry), the session record is fully populated or fully cleared.
C2_AllOrNothing == FullyPopulated(_video_state) \/ FullyCleared(_video_state)

\* A session that was playing has just been cleared by the lazy expiry of a
\* status request.
C2_Witness ==
    /\ call.op = "status"
    /\ FullyPopulated(call.before)
    /\ FullyCleared(_video_state)

\* C4: a status request made at a time at or past the expected end time of
\* the session it finds answers with the idle report, the boundary
\* now = expected_end_time included; a playing report is only ever given by
\* a request made before the end time.
C4_NoPlayingPastEnd ==
    call.op = "status" =>
        /\ PastEnd(call.before, call.at) => resp.code = 200 /\ IdleReport(resp.body)
        /\ PlayingReport(resp.body) =>
              /\ call.before.expected_end_time # None
              /\ call.at < Val(call.before.expected_end_time)

\* A status request made exactly at the expected end time reported idle.
C4_Witness ==
    /\ call.op = "status"
    /\ call.before.expected_end_time = Some(call.at)
    /\ IdleReport(resp.body)

\* C5: an upload made while a session is active (now < expected_end_time)
\* is answered 409 and leaves the three fields of the session as they were.
C5_ConflictRejected ==
    UploadConflict => resp.code = 409 /\ _video_state = call.before

\* An upload has just met an active session.
C5_Witness == UploadConflict /\ resp.code = 409 /\ FullyPopulated(_video_state)

\* C6: an upload that passes validation and probing while the session is
\* idle (never started, ended, or past its end) succeeds; the session then
\* holds the uploaded filename, start_time is the time of the start, and
\* expected_end_time is start_time plus the duration returned to the client,
\* which is the probed one.
C6_StartWhenIdle ==
    ( /\ UploadDone
      /\ ~ ActiveAt(call.before, call.at)
      /\ Validate(call.filename, call.content_type) = None
      /\ Probe(call.file).ok )
    => /\ resp.code = 200
       /\ UploadSucceeded
       /\ resp.body.filename = call.filename
       /\ resp.body.duration * 1000 = call.file.duration_ms
       /\ _video_state.filename = Some(call.filename)
       /\ _video_state.start_time = Some(now)
       /\ _video_state.expected_end_time = Some(now + resp.body.duration)

\* An upload started a session over one that had run past its end.
C6_Witness ==
    /\ UploadSucceeded
    /\ PastEnd(call.before, call.at)
    /\ _video_state.filename = Some(call.filename)

\* C7: the play counter equals the number of uploads that started a session.
C7_CounterCountsStarts == played = started

\* C8: a failed POST /upload is answered with the payload
\* {success: false, error} and status 409 when a session was active, 400
\* when the validator or the probe turned it away.
C8_FailedUploadAnswer ==
    UploadFailed =>
        /\ DOMAIN resp.body = {"success", "error"}
        /\ resp.body.success = FALSE
        /\ resp.code = IF UploadConflict THEN 409 ELSE 400

\* C9: when the probe step of an upload fails, the payload of the answer
\* says failure and carries the reason, the file written for the upload is
\* no longer in storage, and the session is idle.
C9_ProbeFailureCleansUp ==
    UploadProbeFailed =>
        /\ UploadFailed
        /\ DOMAIN resp.body = {"success", "error"}
        /\ resp.body.success = FALSE
        /\ resp.body.error = Probe(call.file).error
        /\ call.filename \notin storage
        /\ FullyCleared(_video_state)

\* An upload without a video track was turned away and its file removed.
C9_Witness ==
    /\ UploadProbeFailed
    /\ resp.body.error = "No video track found in file."
    /\ call.filename \notin storage

\* C10, as claimed: an upload rejected for conflict or by the validator
\* leaves storage and the session record exactly as they were.
C10_RejectedUploadChangesNothing ==
    (UploadConflict \/ UploadInvalid) =>
        storage = call.stored /\ _video_state = call.before

\* C10, amended: such an upload leaves storage exactly as it was, and the
\* session record as it was unless the session was at or past its expected
\* end time, in which case the lazy expiry that opens every upload has
\* cleared it.
C10_RejectedUploadWritesNothing ==
    (UploadConflict \/ UploadInvalid) =>
        /\ storage = call.stored
        /\ _video_state = IF PastEnd(call.before, call.at) THEN Idle ELSE call.before

\* An upload with a bad extension came after a session's end time: the
\* session was cleared, storage kept.
C10_Witness ==
    /\ UploadInvalid
    /\ PastEnd(call.before, call.at)
    /\ call.stored # {}
    /\ storage = call.stored

\* The ids whose latest viewer_ping is at most StaleAfter seconds before t.
RecentlyTouched(t) == {i \in DOMAIN touched : t - touched[i] <= StaleAfter}

\* C11: every count, whether get_viewer_count alone or the answer of POST
\* /ping, is the number of distinct ids whose latest viewer_ping is at most 15
\* seconds old, whatever counts and evictions came before: an id is counted 15
\* seconds after its ping and not 16 seconds after it.
C11_CountIsRecentlyTouched ==
    resp.op \in {"get_viewer_count", "ping"} =>
        resp.body.viewers = Cardinality(RecentlyTouched(now))

\* A count that includes an id pinged exactly 15 seconds ago and leaves out an
\* id pinged 16 seconds ago.
C11_Witness ==
    /\ resp.op = "get_viewer_count"
    /\ \E i, j \in DOMAIN touched :
         now - touched[i] = StaleAfter /\ now - touched[j] = StaleAfter + 1
    /\ resp.body.viewers = 1

\* C12: POST /end always answers 200 and leaves all three fields of the session
\* cleared, whatever the session and the clock were; on an idle session it
\* changes nothing, and an end that follows an end leaves the session as the
\* first one left it.
C12_EndIsIdempotent ==
    [][call'.op = "end" =>
         /\ resp'.code = 200
         /\ resp'.body = [message |-> "Video ended"]
         /\ FullyCleared(_video_state')
         /\ (FullyCleared(_video_state) => _video_state' = _video_state)
         /\ (call.op = "end" => _video_state' = _video_state)]_vars

\* An end that clears a session that was playing.
C12_Witness ==
    /\ call.op = "end"
    /\ FullyPopulated(call.before)
    /\ ActiveAt(call.before, call.at)
    /\ FullyCleared(_video_state)

\* C13: GET /status answers {status: "idle"} and nothing else when the session
\* is idle after the lazy expiry, and status "playing" with the filename, the
\* elapsed time and the viewer count when it is playing; no other status value
\* is returned.
C13_StatusValues ==
    (call.op = "status" /\ resp.op = "status") =>
        IF call.before.filename = None \/ PastEnd(call.before, call.at)
        THEN resp.body = [status |-> "idle"]
        ELSE /\ resp.body.status = "playing"
             /\ DOMAIN resp.body = {"status", "filename", "elapsed", "viewers"}
             /\ resp.body.filename = call.before.filename

\* The upper-case form of the letters of the allowed extensions.
UpperOf(c) ==
    CASE c = "a" -> "A" [] c = "b" -> "B" [] c = "e" -> "E" [] c = "i" -> "I"
      [] c = "k" -> "K" [] c = "m" -> "M" [] c = "o" -> "O" [] c = "p" -> "P"
      [] c = "v" -> "V" [] c = "w" -> "W"
      [] OTHER -> c

\* The extension of name is e in some mix of upper and lower case: name ends
\* with it, and what precedes it has a character other than a dot in its last
\* path component.
ExtensionIs(name, e) ==
    /\ Len(name) > Len(e)
    /\ \A i \in 1..Len(e) :
         LET c == name[Len(name) - Len(e) + i]
         IN  c = e[i] \/ c = UpperOf(e[i])
    /\ \E i \in 1..(Len(name) - Len(e)) :
         /\ name[i] # "."
         /\ \A j \in i..(Len(name) - Len(e)) : name[j] # "/"

\* No content type is declared: the header is missing or empty.
Undeclared(content_type) == content_type = None \/ content_type = Some("")

\* C14: the validator accepts a (filename, content type) pair exactly when the
\* lowercased extension of the filename is one of .mp4, .mov, .avi, .mkv, .webm
\* and the content type is undeclared or equal to the MIME value of that
\* extension.
C14_ValidatorAcceptsExactly ==
    resp.op = "validate" =>
        (resp.code = 200 <=>
            \E e \in ALLOWED_EXTENSIONS :
                /\ ExtensionIs(call.filename, e)
                /\ \/ Undeclared(call.content_type)
                   \/ call.content_type = ALLOWED_CONTENT_TYPES(e))

\* A name with an upper-case extension and the matching content type is
\* accepted.
C14_Witness ==
    /\ resp.op = "validate"
    /\ resp.code = 200
    /\ call.filename = <<"a", ".", "M", "K", "V">>
    /\ call.content_type = Some("video/x-matroska")

\* C15: GET /video applies the lazy expiry first and answers not found exactly
\* when the session is then idle (never started, ended, or at or past its
\* expected end time, in which case the record is cleared); otherwise it gives
\* the storage location and the filename of the active asset and leaves the
\* session as it was.
C15_ResolvePath ==
    (call.op = "video" /\ resp.op = "video") =>
        IF call.before.filename = None \/ PastEnd(call.before, call.at)
        THEN /\ resp.code = 404
             /\ resp.body = [detail |-> "No video playing"]
             /\ FullyCleared(_video_state)
        ELSE /\ resp.code = 200
             /\ resp.body.path = <<"shared_video", Val(call.before.filename)>>
             /\ resp.body.filename = call.before.filename
             /\ _video_state = call.before

\* The asset is asked for at the very end time of a session that nobody has
\* observed since: not found, and the record is cleared.
C15_Witness ==
    /\ call.op = "video"
    /\ FullyPopulated(call.before)
    /\ call.at = Val(call.before.expected_end_time)
    /\ resp.code = 404
    /\ FullyCleared(_video_state)

\* C16: the elapsed value of every playing status response is the clock at
\* the response minus the start_time of the active session, and it is never
\* negative.
C16_ElapsedNonNegative ==
    (call.op = "status" /\ PlayingReport(resp.body)) =>
        /\ call.before.start_time # None
        /\ resp.body.elapsed = now - Val(call.before.start_time)
        /\ resp.body.elapsed >= 0

\* A playing status some time after the start.
C16_Witness ==
    /\ call.op = "status"
    /\ PlayingReport(resp.body)
    /\ resp.body.elapsed > 0

\* C17: an upload that arrives at or past the expected end time of a session
\* nobody has observed since is never answered 409; the old session is expired
\* first, and when the upload passes validation and probing the new session
\* starts.
C17_UploadExpiresFirst ==
    (UploadDone /\ FullyPopulated(call.before) /\ PastEnd(call.before, call.at)) =>
        /\ resp.code # 409
        /\ _video_state # call.before
        /\ (Validate(call.filename, call.content_type) = None /\ Probe(call.file).ok)
           => /\ UploadSucceeded
              /\ _video_state.filename = Some(call.filename)
              /\ Val(_video_state.start_time) >= call.at
        /\ ~ (Validate(call.filename, call.content_type) = None /\ Probe(call.file).ok)
           => FullyCleared(_video_state)

\* An upload arrives exactly at the expected end time of the previous session
\* and starts the next one.
C17_Witness ==
    /\ UploadSucceeded
    /\ FullyPopulated(call.before)
    /\ call.at = Val(call.before.expected_end_time)
    /\ _video_state.filename = Some(call.filename)
    /\ Val(_video_state.start_time) >= call.at

\* C18: entries leave the registry only in a count (get_viewer_count alone,
\* in POST /ping or in a playing status).  viewer_ping sets the entry of its id
\* to the clock and leaves every other entry as it was, stale or not; the
\* passage of time, POST /end and a status query on an idle session leave the
\* registry unchanged.
C18_OnlyCountsEvict ==
    [][/\ resp'.op = "viewer_ping" =>
            /\ DOMAIN _viewers' = DOMAIN _viewers \cup {resp'.body.viewer_id}
            /\ _viewers'[resp'.body.viewer_id] = now
            /\ \A k \in DOMAIN _viewers \ {resp'.body.viewer_id} :
                 _viewers'[k] = _viewers[k]
       /\ ( \/ resp'.op = "none"
            \/ resp'.op = "end"
            \/ resp'.op = "status" /\ IdleReport(resp'.body) )
          => _viewers' = _viewers
       /\ (\E k \in DOMAIN _viewers : k \notin DOMAIN _viewers')
          => \/ resp'.op \in {"get_viewer_count", "ping"}
             \/ resp'.op = "status" /\ PlayingReport(resp'.body)]_vars

\* A viewer_ping finds a stale entry of another id and leaves it in place.
C18_Witness ==
    /\ resp.op = "viewer_ping"
    /\ \E k \in DOMAIN _viewers :
         /\ k # resp.body.viewer_id
         /\ now - _viewers[k] > StaleAfter
    /\ _viewers[resp.body.viewer_id] = now

\* C19: whenever the session is playing, the file named by its filename is in
\* storage, whatever the interleaving of concurrent uploads.
C19_PlayingFileStored ==
    FullyPopulated(_video_state) => Val(_video_state.filename) \in storage

\* C20: every ping request that runs concurrently with another on the shared
\* registry completes without error: its count never fails on a key that
\* another count has removed, nor on an entry added while it was scanning.
C20_PingsComplete ==
    resp.op = "ping" => resp.code = 200

====
